---- MODULE Spec2Model ----
(***************************************************************************)
(* A model of the reactive cell runtime of src/lib.rs: a Reactor owning a  *)
(* map from numeric handle to cell (input or compute) and an id counter.   *)
(* Compute cells hold no cached value: every read re-evaluates the cell    *)
(* recursively through Cell::get_val.                                      *)
(***************************************************************************)
EXTENDS Integers, Sequences, FiniteSets, TLC

(* ------------------------------ bounds --------------------------------- *)

\* The counter stops growing at MaxCells; handle MaxCells is never created.
MaxCells == 3
\* The value type T is modelled as the integers modulo NumVals.
NumVals == 2

Vals == 0 .. (NumVals - 1)

(* ------------------------------ data ----------------------------------- *)

\* enum CellID { Input(InputCellID), Compute(ComputeCellID) }: a kind tag
\* over a raw u64 handle.
InputId(n) == [kind |-> "Input", n |-> n]
ComputeId(n) == [kind |-> "Compute", n |-> n]

\* CellID::get_id: the raw handle, whatever the kind.
get_id(cid) == cid.n

\* The compute functions (closures Fn(&[T]) -> T) the model draws from.
Funcs == {"weighted", "zero"}

RECURSIVE WeightedTo(_, _)
WeightedTo(args, k) == IF k = 0 THEN 0 ELSE WeightedTo(args, k - 1) + k * args[k]

\* func(&computed): "weighted" adds i * argument i, so that it depends on
\* the order of its arguments; "zero" ignores them (A * 0).
Apply(f, args) ==
    IF f = "weighted" THEN WeightedTo(args, Len(args)) % NumVals ELSE 0

\* struct InputCell { val }
InputCell(v) == [kind |-> "Input", val |-> v]

\* A ComputeCell that keeps its dependencies in the opposite order.
ComputeCell_reversed(f, deps) ==
    [kind |-> "Compute", func |-> f,
     deps |-> [i \in 1 .. Len(deps) |-> get_id(deps[Len(deps) + 1 - i])]]

\* struct ComputeCell { func, _deps }.  The only read of a stored
\* dependency is dep.get_id() in Cell::get_val, so the cell keeps the raw
\* handles of dependencies.to_owned(), in their order.
ComputeCell(f, deps) ==
    [kind |-> "Compute", func |-> f, deps |-> [i \in 1 .. Len(deps) |-> get_id(deps[i])]]

\* Outcomes of the public operations.
None == [tag |-> "None"]
Some(v) == [tag |-> "Some", v |-> v]
Ok(v) == [tag |-> "Ok", v |-> v]
Err(v) == [tag |-> "Err", v |-> v]
Bool(b) == [tag |-> "Bool", v |-> b]
Panic == [tag |-> "Panic"]

\* The value standing for a panic inside an evaluation (Option::unwrap on
\* a dependency handle missing from the map).
PanicVal == -1

(* ------------------------------ state ---------------------------------- *)

VARIABLES
    id,         \* Reactor.id, the next handle
    cells,      \* Reactor.cells, handle -> cell
    op,         \* the last public operation called, with its arguments
    ret,        \* what that operation returned
    written,    \* history: input handle -> the value last given for it
    fired,      \* history: the callback invocations made by the last operation
    evals       \* history: the cells the last operation called get_val on, in call order

vars == <<id, cells, op, ret, written, fired, evals>>

(* ---------------------------- evaluation ------------------------------- *)

RECURSIVE get_val(_)

\* Cell::get_val with the dependency values pushed in the opposite order.
get_val_reversed(cell) ==
    IF cell.kind = "Input" THEN cell.val
    ELSE LET n == Len(cell.deps)
             computed == [i \in 1 .. n |->
                            LET h == cell.deps[n + 1 - i]
                            IN IF h \in DOMAIN cells
                               THEN get_val(cells[h])
                               ELSE PanicVal]
         IN IF \E i \in 1 .. n : computed[i] = PanicVal
            THEN PanicVal
            ELSE Apply(cell.func, computed)

\* Cell::get_val: an input cell's stored value; a compute cell's function
\* applied to the values of its dependencies, each looked up by raw handle
\* and evaluated in turn.
get_val(cell) ==
    IF cell.kind = "Input" THEN cell.val
    ELSE LET computed == [i \in 1 .. Len(cell.deps) |->
                            LET h == cell.deps[i]
                            IN IF h \in DOMAIN cells
                               THEN get_val(cells[h])
                               ELSE PanicVal]
         IN IF \E i \in 1 .. Len(cell.deps) : computed[i] = PanicVal
            THEN PanicVal
            ELSE Apply(cell.func, computed)

\* Reactor::value answering None as well when the cell under the handle is
\* not of the id's kind.
value_kindchecked(cid) ==
    IF cid.n \in DOMAIN cells /\ cells[cid.n].kind = cid.kind
    THEN LET v == get_val(cells[cid.n])
         IN IF v = PanicVal THEN Panic ELSE Some(v)
    ELSE None

\* Reactor::value: None when the raw handle is not in the map; otherwise
\* the cell's evaluation, for either kind of the id.
value(cid) ==
    IF cid.n \in DOMAIN cells
    THEN LET v == get_val(cells[cid.n])
         IN IF v = PanicVal THEN Panic ELSE Some(v)
    ELSE None

RECURSIVE Reaches(_, _)
\* Cell c depends on cell a, directly or through other compute cells.
Reaches(c, a) ==
    /\ cells[c].kind = "Compute"
    /\ \E i \in 1 .. Len(cells[c].deps) :
           \/ cells[c].deps[i] = a
           \/ /\ cells[c].deps[i] \in DOMAIN cells
              /\ Reaches(cells[c].deps[i], a)

RECURSIVE MemoTrace(_, _)
\* The cells at or below handle t that a get_val call on cell h reaches,
\* each listed once.
MemoTrace(h, t) ==
    IF t < 0 THEN << >>
    ELSE (IF t = h \/ Reaches(h, t) THEN <<t>> ELSE << >>) \o MemoTrace(h, t - 1)

\* Cell::get_val remembering, within one call, the cells it has evaluated:
\* every cell the call reaches is evaluated once.
get_val_calls_memo(h) == MemoTrace(h, h)

RECURSIVE get_val_calls(_)
RECURSIVE DepCalls(_, _)

\* The get_val calls made by the loop of Cell::get_val over the first k
\* dependencies, in the order they are made: each dependency is evaluated
\* where it stands in the list, whether or not it was evaluated before.
DepCalls(deps, k) ==
    IF k = 0 THEN << >>
    ELSE DepCalls(deps, k - 1)
            \o (IF deps[k] \in DOMAIN cells THEN get_val_calls(deps[k]) ELSE << >>)

\* The get_val calls made by one call of get_val on cell h, as the list
\* of the cells called on: h itself, then the calls for h's dependencies.
get_val_calls(h) ==
    <<h>> \o (IF cells[h].kind = "Compute"
              THEN DepCalls(cells[h].deps, Len(cells[h].deps))
              ELSE << >>)

\* An operation that calls get_val on no cell.
NoCalls == << >>

RECURSIVE ScanCalls(_, _)
\* The get_val calls made by the loop of create_compute from the i-th
\* dependency on: it evaluates each dependency it finds and stops at the
\* first one it does not find.
ScanCalls(deps, i) ==
    IF i > Len(deps) \/ deps[i].n \notin DOMAIN cells THEN << >>
    ELSE get_val_calls(deps[i].n) \o ScanCalls(deps, i + 1)

(* ----------------------------- operations ------------------------------ *)

\* Reactor::new
Init ==
    /\ id = 0
    /\ cells = << >>
    /\ op = [name |-> "new"]
    /\ ret = None
    /\ written = << >>
    /\ fired = {}
    /\ evals = << >>

\* The handles a caller passes: those issued so far and the next one,
\* which names no cell yet.
HeldHandles == 0 .. id

\* The ids a caller passes: the ids this reactor returned, and the
\* InputCellIDs of a second Reactor<T> that holds only input cells, one
\* more than this reactor holds cells.  Such an id names a compute cell,
\* an input cell or no cell of this reactor.
HeldIds ==
    {[kind |-> cells[h].kind, n |-> h] : h \in DOMAIN cells}
        \cup {InputId(h) : h \in HeldHandles}

\* The dependency lists create_compute is called with: for compute
\* functions of no, of one and of two arguments.
DepLists ==
    {<< >>} \cup {<<a>> : a \in HeldIds} \cup {<<a, b>> : a, b \in HeldIds}

\* What a handle names: an input cell, a compute cell or no cell.
KindAt(h) == IF h \in DOMAIN cells THEN cells[h].kind ELSE "None"

\* An insert that empties the map before it stores the entry.
Insert_clearing(m, k, v) == [x \in {k} |-> v]

\* map.insert(k, v)
Insert(m, k, v) == [x \in (DOMAIN m) \cup {k} |-> IF x = k THEN v ELSE m[x]]

\* Reactor::create_input without self.id = self.id + 1.
create_input_reuse(initial) ==
    /\ id < MaxCells
    /\ id' = id
    /\ cells' = Insert(cells, id, InputCell(initial))
    /\ op' = [name |-> "create_input"]
    /\ ret' = InputId(id)
    /\ written' = Insert(written, id, initial)
    /\ fired' = {}
    /\ evals' = NoCalls

\* Reactor::create_input
create_input(initial) ==
    /\ id < MaxCells
    /\ id' = id + 1
    /\ cells' = Insert(cells, id, InputCell(initial))
    /\ op' = [name |-> "create_input"]
    /\ ret' = InputId(id)
    /\ written' = Insert(written, id, initial)
    /\ fired' = {}
    /\ evals' = NoCalls

RECURSIVE ScanDeps_kindchecked(_, _)
\* The loop of create_compute taking a dependency whose kind is not the
\* kind of the cell under its handle for a missing one.
ScanDeps_kindchecked(deps, i) ==
    IF i > Len(deps) THEN [tag |-> "Done"]
    ELSE IF deps[i].n \notin DOMAIN cells THEN Err(deps[i])
    ELSE IF cells[deps[i].n].kind # deps[i].kind THEN Err(deps[i])
    ELSE IF get_val(cells[deps[i].n]) = PanicVal THEN Panic
    ELSE ScanDeps_kindchecked(deps, i + 1)

RECURSIVE ScanDeps(_, _)
\* The loop of create_compute over the dependencies, from the i-th on: the
\* first dependency whose raw handle is not in the map ends the call with
\* Err(that dependency); every dependency before it has been evaluated.
ScanDeps(deps, i) ==
    IF i > Len(deps) THEN [tag |-> "Done"]
    ELSE IF deps[i].n \notin DOMAIN cells THEN Err(deps[i])
    ELSE IF get_val(cells[deps[i].n]) = PanicVal THEN Panic
    ELSE ScanDeps(deps, i + 1)

\* Reactor::create_compute taking the next handle before it looks at the
\* dependencies.
create_compute_eager(deps, f) ==
    LET scan == ScanDeps(deps, 1)
    IN /\ id < MaxCells
       /\ op' = [name |-> "create_compute", deps |-> deps, func |-> f]
       /\ fired' = {}
       /\ evals' = ScanCalls(deps, 1)
       /\ UNCHANGED written
       /\ id' = id + 1
       /\ IF scan.tag = "Done"
          THEN /\ cells' = Insert(cells, id, ComputeCell(f, deps))
               /\ ret' = Ok(ComputeId(id))
          ELSE /\ ret' = scan
               /\ UNCHANGED cells

\* Reactor::create_compute without the lookup of the dependencies: the
\* cell is stored whatever the handles of its dependencies name.
create_compute_unchecked(deps, f) ==
    /\ id < MaxCells
    /\ op' = [name |-> "create_compute", deps |-> deps, func |-> f]
    /\ fired' = {}
    /\ evals' = NoCalls
    /\ UNCHANGED written
    /\ id' = id + 1
    /\ cells' = Insert(cells, id, ComputeCell(f, deps))
    /\ ret' = Ok(ComputeId(id))

\* Reactor::create_compute taking the handle of the new cell for the
\* handle of an existing one: a dependency on the cell being created is
\* accepted.
create_compute_selfdep(deps, f) ==
    LET scan == ScanDeps(SelectSeq(deps, LAMBDA d : d.n # id), 1)
    IN /\ id < MaxCells
       /\ op' = [name |-> "create_compute", deps |-> deps, func |-> f]
       /\ fired' = {}
       /\ evals' = ScanCalls(deps, 1)
       /\ UNCHANGED written
       /\ IF scan.tag = "Done"
          THEN /\ id' = id + 1
               /\ cells' = Insert(cells, id, ComputeCell(f, deps))
               /\ ret' = Ok(ComputeId(id))
          ELSE /\ ret' = scan
               /\ UNCHANGED <<id, cells>>

\* Reactor::create_compute
create_compute(deps, f) ==
    LET scan == ScanDeps(deps, 1)
    IN /\ id < MaxCells
       /\ op' = [name |-> "create_compute", deps |-> deps, func |-> f]
       /\ fired' = {}
       /\ evals' = ScanCalls(deps, 1)
       /\ UNCHANGED written
       /\ IF scan.tag = "Done"
          THEN /\ id' = id + 1
               /\ cells' = Insert(cells, id, ComputeCell(f, deps))
               /\ ret' = Ok(ComputeId(id))
          ELSE /\ ret' = scan
               /\ UNCHANGED <<id, cells>>

\* A call of Reactor::value that takes the value out of an input cell and
\* leaves 0 in its place.
Value_taking(cid) ==
    /\ op' = [name |-> "value", n |-> cid.n]
    /\ ret' = value(cid)
    /\ fired' = {}
    /\ evals' = IF cid.n \in DOMAIN cells THEN get_val_calls(cid.n) ELSE NoCalls
    /\ cells' = IF cid.n \in DOMAIN cells /\ cells[cid.n].kind = "Input"
                THEN Insert(cells, cid.n, InputCell(0))
                ELSE cells
    /\ UNCHANGED <<id, written>>

\* A call of Reactor::value; it takes &self.
Value(cid) ==
    /\ op' = [name |-> "value", n |-> cid.n]
    /\ ret' = value(cid)
    /\ fired' = {}
    /\ evals' = IF cid.n \in DOMAIN cells THEN get_val_calls(cid.n) ELSE NoCalls
    /\ UNCHANGED <<id, cells, written>>

\* Reactor::set_value without the test for a compute cell: whatever cell
\* the handle names is replaced by an input cell.
set_value_anykind(h, new_value) ==
    /\ op' = [name |-> "set_value", n |-> h]
    /\ fired' = {}
    /\ evals' = NoCalls
    /\ UNCHANGED id
    /\ IF h \notin DOMAIN cells
       THEN /\ ret' = Bool(FALSE)
            /\ UNCHANGED <<cells, written>>
       ELSE /\ cells' = Insert(cells, h, InputCell(new_value))
            /\ written' = Insert(written, h, new_value)
            /\ ret' = Bool(TRUE)

\* Reactor::set_value answering true without storing the new cell.
set_value_lost(h, new_value) ==
    /\ op' = [name |-> "set_value", n |-> h]
    /\ fired' = {}
    /\ evals' = NoCalls
    /\ UNCHANGED id
    /\ IF h \notin DOMAIN cells \/ cells[h].kind = "Compute"
       THEN /\ ret' = Bool(FALSE)
            /\ UNCHANGED <<cells, written>>
       ELSE /\ UNCHANGED cells
            /\ written' = Insert(written, h, new_value)
            /\ ret' = Bool(TRUE)

\* Reactor::set_value storing the new value in every input cell.
set_value_broadcast(h, new_value) ==
    /\ op' = [name |-> "set_value", n |-> h]
    /\ fired' = {}
    /\ evals' = NoCalls
    /\ UNCHANGED id
    /\ IF h \notin DOMAIN cells \/ cells[h].kind = "Compute"
       THEN /\ ret' = Bool(FALSE)
            /\ UNCHANGED <<cells, written>>
       ELSE /\ cells' = [x \in DOMAIN cells |->
                           IF cells[x].kind = "Input" THEN InputCell(new_value) ELSE cells[x]]
            /\ written' = Insert(written, h, new_value)
            /\ ret' = Bool(TRUE)

\* Reactor::set_value
set_value(h, new_value) ==
    /\ op' = [name |-> "set_value", n |-> h]
    /\ fired' = {}
    /\ evals' = NoCalls
    /\ UNCHANGED id
    /\ IF h \notin DOMAIN cells \/ cells[h].kind = "Compute"
       THEN /\ ret' = Bool(FALSE)
            /\ UNCHANGED <<cells, written>>
       ELSE /\ cells' = Insert(cells, h, InputCell(new_value))
            /\ written' = Insert(written, h, new_value)
            /\ ret' = Bool(TRUE)

\* Reactor::add_callback: unimplemented!() panics before anything is read
\* or stored.
add_callback(h) ==
    /\ op' = [name |-> "add_callback", on |-> KindAt(h)]
    /\ ret' = Panic
    /\ fired' = {}
    /\ evals' = NoCalls
    /\ UNCHANGED <<id, cells, written>>

\* Reactor::remove_callback: unimplemented!(..) panics likewise.
remove_callback(h) ==
    /\ op' = [name |-> "remove_callback"]
    /\ ret' = Panic
    /\ fired' = {}
    /\ evals' = NoCalls
    /\ UNCHANGED <<id, cells, written>>

Next ==
    \/ \E v \in Vals : create_input(v)
    \/ \E deps \in DepLists, f \in Funcs : create_compute(deps, f)
    \/ \E cid \in HeldIds : Value(cid)
    \/ \E h \in HeldHandles, v \in Vals : set_value(h, v)
    \/ \E h \in HeldHandles : add_callback(h)
    \/ \E h \in HeldHandles : remove_callback(h)

Spec == Init /\ [][Next]_vars

(* ------------------------- reference evaluation ------------------------ *)

IsInput(h) == h \in DOMAIN cells /\ cells[h].kind = "Input"
IsCompute(h) == h \in DOMAIN cells /\ cells[h].kind = "Compute"

\* The id create_input or create_compute returned for handle h.
IdOf(h) == [kind |-> cells[h].kind, n |-> h]

RECURSIVE RefVal(_)
\* What cell h is worth according to the history of writes: an input cell
\* the value last given for it, a compute cell its function of what its
\* dependencies are worth.
RefVal(h) ==
    IF cells[h].kind = "Input" THEN written[h]
    ELSE Apply(cells[h].func,
               [i \in 1 .. Len(cells[h].deps) |-> RefVal(cells[h].deps[i])])

\* Every read returns what the history of writes makes the cell worth.
ReadsFollowWrites ==
    \A h \in DOMAIN cells : value(IdOf(h)) = Some(RefVal(h))

\* The positions of a dependency list whose handle names no cell.
Missing(deps) == {i \in 1 .. Len(deps) : deps[i].n \notin DOMAIN cells}

\* The compute cells that depend on cell h directly.
Dependents(h) ==
    {c \in DOMAIN cells :
        IsCompute(c) /\ \E i \in 1 .. Len(cells[c].deps) : cells[c].deps[i] = h}

(* ------------------------------- claims -------------------------------- *)

\* C1: in every state, the value read for a compute cell is its function
\* applied to the values read, at that moment, for its dependencies in
\* their declared order, and no read of an existing cell panics.
C1_ComputeConsistent ==
    \A h \in DOMAIN cells :
        cells[h].kind = "Compute" =>
            /\ \A i \in 1 .. Len(cells[h].deps) :
                   /\ cells[h].deps[i] \in DOMAIN cells
                   /\ value(IdOf(cells[h].deps[i])).tag = "Some"
            /\ value(ComputeId(h)) =
                   Some(Apply(cells[h].func,
                              [i \in 1 .. Len(cells[h].deps) |->
                                   value(IdOf(cells[h].deps[i])).v]))

\* Witness of C1: set_value has just written 1 into input cell op.n, on
\* which a compute cell b depends, on which in turn a compute cell c
\* depends that does not depend on op.n itself, and c reads 1.
C1_Witness ==
    /\ op.name = "set_value"
    /\ ret = Bool(TRUE)
    /\ written[op.n] = 1
    /\ \E b \in Dependents(op.n) :
           \E c \in Dependents(b) :
               /\ op.n \notin {cells[c].deps[i] : i \in 1 .. Len(cells[c].deps)}
               /\ value(ComputeId(c)) = Some(1)

\* C2, for a callback added to the only compute cell of the reactor by the
\* add_callback call that directly precedes a set_value call: when that
\* set_value call changes the value of the cell, the callback is invoked
\* exactly once, with the cell's value after the call.
C2_ChangedCellFiresOnce ==
    [][(/\ op = [name |-> "add_callback", on |-> "Compute"]
        /\ op'.name = "set_value")
       => \A c \in DOMAIN cells, v \in Vals :
              (/\ \A k \in DOMAIN cells : IsCompute(k) <=> k = c
               /\ value(ComputeId(c)) # Some(v)
               /\ value(ComputeId(c))' = Some(v))
              => fired' = {[cell |-> c, val |-> v]}]_vars

\* C4: set_value on the handle of an existing input cell returns true;
\* and in every state each cell, input or compute, reads what the values
\* last written to the inputs make it worth, so the written value stays
\* in force until the next set_value on that input.
C4_SetValueWrites ==
    /\ [][op'.name = "set_value" =>
              \A h \in {op'.n} : IsInput(h) => ret' = Bool(TRUE)]_vars
    /\ []ReadsFollowWrites

\* Witness of C4: set_value has just written into input cell op.n, which
\* now reads 1, and a compute cell that depends on it only through another
\* compute cell reads the 1 as well.
C4_Witness ==
    /\ op.name = "set_value"
    /\ ret = Bool(TRUE)
    /\ value(InputId(op.n)) = Some(1)
    /\ \E b \in Dependents(op.n) :
           /\ cells[b].deps = <<op.n>>
           /\ cells[b].func = "weighted"
           /\ \E c \in Dependents(b) :
                  /\ cells[c].deps = <<b>>
                  /\ cells[c].func = "weighted"
                  /\ value(ComputeId(c)) = Some(1)

\* C5: set_value on a handle that names no cell, or that names a compute
\* cell, returns false and changes neither the cell map (the cells, the
\* stored input values, the dependencies and functions) nor the id
\* counter.  value reads only the cell map, so every value(id) reads as
\* before.
C5_SetValueRejects ==
    [][op'.name = "set_value" =>
           \A h \in {op'.n} :
               ~IsInput(h) =>
                   /\ ret' = Bool(FALSE)
                   /\ cells' = cells
                   /\ id' = id]_vars

\* Witness of C5: set_value was called with the handle of a compute cell
\* and returned false.
C5_Witness ==
    /\ op.name = "set_value"
    /\ IsCompute(op.n)
    /\ ret = Bool(FALSE)

\* C6: create_compute with a dependency list that holds an id naming no
\* cell returns Err carrying one of the ids of the list that name no cell,
\* and leaves the cell map and the id counter as they were.
C6_MissingDependency ==
    [][op'.name = "create_compute" =>
           \A deps \in {op'.deps} :
               Missing(deps) # {} =>
                   /\ ret'.tag = "Err"
                   /\ \E i \in Missing(deps) : ret'.v = deps[i]
                   /\ cells' = cells
                   /\ id' = id]_vars

\* Witness of C6: create_compute was called with a list of two ids, the
\* first naming a cell and the second not, and returned Err(the second).
C6_Witness ==
    /\ op.name = "create_compute"
    /\ Len(op.deps) = 2
    /\ op.deps[1].n \in DOMAIN cells
    /\ op.deps[2].n \notin DOMAIN cells
    /\ ret = Err(op.deps[2])

\* Right after a create_compute call that returned Ok(c), c reads the
\* function given to the call applied to the values that the ids given to
\* the call read, argument i from dependency i.
CreatedReads ==
    (op.name = "create_compute" /\ ret.tag = "Ok") =>
        /\ \A i \in 1 .. Len(op.deps) : value(op.deps[i]).tag = "Some"
        /\ value(ret.v) =
               Some(Apply(op.func, [i \in 1 .. Len(op.deps) |-> value(op.deps[i]).v]))

\* C7: create_compute with dependencies that all name cells returns Ok
\* with the id of a new compute cell, under the handle the counter stood
\* at; and right after the call that cell reads the given function
\* applied to the current values of the dependencies in their declared
\* order.
C7_CreateComputeValue ==
    /\ [][op'.name = "create_compute" =>
              \A deps \in {op'.deps}, new \in {id} :
                  Missing(deps) = {} =>
                      /\ ret' = Ok(ComputeId(new))
                      /\ new \notin DOMAIN cells
                      /\ new \in DOMAIN cells'
                      /\ cells'[new].kind = "Compute"]_vars
    /\ []CreatedReads

\* Witness of C7: create_compute has just made a cell of the order-aware
\* function over two dependencies that read different values, so that the
\* opposite order of arguments would give another value.
C7_Witness ==
    /\ op.name = "create_compute"
    /\ op.func = "weighted"
    /\ ret.tag = "Ok"
    /\ Len(op.deps) = 2
    /\ value(op.deps[1]) # value(op.deps[2])
    /\ value(ret.v) = Some(Apply("weighted", <<value(op.deps[1]).v, value(op.deps[2]).v>>))
    /\ value(ret.v) # Some(Apply("weighted", <<value(op.deps[2]).v, value(op.deps[1]).v>>))

\* C8: value(id) returns None exactly when the reactor holds no cell under
\* the id's handle, and otherwise Some of what the cell is worth now.
C8_ValueOption ==
    [][op'.name = "value" =>
           \A h \in {op'.n} :
               /\ (ret' = None) <=> (h \notin DOMAIN cells)
               /\ h \in DOMAIN cells => ret' = Some(RefVal(h))]_vars

\* Witness of C8: value has just answered Some(1) for a compute cell that
\* depends on an input cell.
C8_Witness ==
    /\ op.name = "value"
    /\ IsCompute(op.n)
    /\ ret = Some(1)
    /\ \E i \in 1 .. Len(cells[op.n].deps) : IsInput(cells[op.n].deps[i])

\* C9: add_callback on the id of an existing compute cell returns Some
\* callback identifier, and on an id that names no compute cell returns
\* None.
C9_AddCallbackReturns ==
    [][op'.name = "add_callback" =>
           IF op'.on = "Compute" THEN ret'.tag = "Some" ELSE ret' = None]_vars

\* C10: remove_callback returns Err(NonexistentCell) for an unknown cell
\* id, and for a cell that exists either Err(NonexistentCallback) or Ok.
C10_RemoveCallbackReturns ==
    [][op'.name = "remove_callback" =>
           \A h \in HeldHandles :
               remove_callback(h) =>
                   IF h \notin DOMAIN cells
                   THEN ret' = Err("NonexistentCell")
                   ELSE ret' \in {Err("NonexistentCallback"), Ok("unit")}]_vars

\* C12: no public operation ends in a panic: whatever the operation and
\* its arguments, its outcome is a returned Option, bool or Result.
C12_NoFatalFault ==
    ret # Panic


\* An id whose kind is not the kind of the cell stored under its handle.
Mismatch(cid) == cid.n \in DOMAIN cells /\ cells[cid.n].kind # cid.kind

\* C13 as stated: an id whose kind is not the kind of the cell under its
\* handle is treated as an id that names no cell: value returns None,
\* create_compute returns Err with that dependency, set_value returns
\* false, and the cell map and the id counter stay as they were.
C13_MismatchIsAbsent ==
    [][/\ op'.name = "value" =>
              \A cid \in {InputId(op'.n)} :
                  (Mismatch(cid) /\ Value(cid)) => ret' = None
       /\ op'.name = "create_compute" =>
              \A deps \in {op'.deps} :
                  (\E i \in 1 .. Len(deps) : Mismatch(deps[i])) =>
                      /\ ret'.tag = "Err"
                      /\ cells' = cells
                      /\ id' = id
       /\ op'.name = "set_value" =>
              \A h \in {op'.n} :
                  IsCompute(h) => ret' = Bool(FALSE) /\ cells' = cells /\ id' = id]_vars

\* C13, amended: value and create_compute look a cell up by the raw handle
\* of the id and never compare the id's kind with the kind of the cell.
\* value on an id of the other kind returns Some of what the cell under
\* the handle is worth, and create_compute whose dependencies all have
\* their handle in the map returns Ok even when a dependency is of the
\* other kind.  Only set_value tells the kinds apart: on the handle of a
\* compute cell it returns false and changes nothing.
C13_KindIgnored ==
    [][/\ op'.name = "value" =>
              \A cid \in {InputId(op'.n)} :
                  (Mismatch(cid) /\ Value(cid)) =>
                      /\ ret' = Some(RefVal(cid.n))
                      /\ cells' = cells
                      /\ id' = id
       /\ op'.name = "create_compute" =>
              \A deps \in {op'.deps}, new \in {id} :
                  (/\ Missing(deps) = {}
                   /\ \E i \in 1 .. Len(deps) : Mismatch(deps[i])) =>
                      /\ ret' = Ok(ComputeId(new))
                      /\ cells'[new].deps = [i \in 1 .. Len(deps) |-> deps[i].n]
       /\ op'.name = "set_value" =>
              \A h \in {op'.n} :
                  IsCompute(h) => ret' = Bool(FALSE) /\ cells' = cells /\ id' = id]_vars

\* Witness of C13: create_compute was given, as a dependency, an InputCellID
\* whose handle names a compute cell of this reactor, and returned Ok; value
\* on that id reads Some.
C13_Witness ==
    /\ op.name = "create_compute"
    /\ ret.tag = "Ok"
    /\ \E i \in 1 .. Len(op.deps) :
           /\ op.deps[i].kind = "Input"
           /\ IsCompute(op.deps[i].n)
           /\ value(op.deps[i]).tag = "Some"


\* The handles of the cell map are exactly the numbers below the counter.
HandlesBelowCounter == DOMAIN cells = 0 .. (id - 1)

\* C14: input and compute cells draw their handles from one counter that
\* never decreases: a successful create_input or create_compute returns
\* the handle the counter stood at, under which no cell was stored, and
\* moves the counter one up; in every state the handles of the cell map
\* are exactly the numbers below the counter.
C14_SharedCounter ==
    /\ [][/\ id' >= id
          /\ (op'.name = "create_input"
                \/ (op'.name = "create_compute" /\ ret'.tag = "Ok")) =>
                 \A new \in {id} :
                     /\ ret' \in {InputId(new), Ok(ComputeId(new))}
                     /\ new \notin DOMAIN cells
                     /\ DOMAIN cells' = (DOMAIN cells) \cup {new}
                     /\ id' = new + 1]_vars
    /\ []HandlesBelowCounter

\* Witness of C14: create_compute has just returned handle 2 in a reactor
\* that holds an input cell and another compute cell under handles 0 and 1.
C14_Witness ==
    /\ op.name = "create_compute"
    /\ ret = Ok(ComputeId(2))
    /\ id = 3
    /\ \E h, k \in {0, 1} : IsInput(h) /\ IsCompute(k)


\* C15: a value call changes neither the cell map nor the id counter (and
\* value reads nothing else), and a value call that directly follows a
\* value call on the same handle returns the same result.
C15_ValuePure ==
    [][op'.name = "value" =>
           /\ cells' = cells
           /\ id' = id
           /\ (op.name = "value" /\ op.n = op'.n) => ret' = ret]_vars

\* Witness of C15: value has just returned Some(1) for an input cell on
\* which a compute cell depends, and that compute cell reads 1 as well.
C15_Witness ==
    /\ op.name = "value"
    /\ IsInput(op.n)
    /\ ret = Some(1)
    /\ \E c \in Dependents(op.n) : value(ComputeId(c)) = Some(1)


\* C16: in every state, every dependency handle stored in a compute cell
\* names a cell of the map and is smaller than the handle of the compute
\* cell itself, so that no cell depends on itself through any chain and
\* the lookup of a dependency during an evaluation finds a cell.
C16_DepsExistAndPrecede ==
    \A c \in DOMAIN cells :
        cells[c].kind = "Compute" =>
            \A i \in 1 .. Len(cells[c].deps) :
                /\ cells[c].deps[i] \in DOMAIN cells
                /\ cells[c].deps[i] < c

\* Witness of C16: a compute cell with two dependencies, one of them a
\* compute cell with a dependency of its own.
C16_Witness ==
    \E c \in DOMAIN cells :
        /\ IsCompute(c)
        /\ Len(cells[c].deps) = 2
        /\ \E i \in 1 .. 2 :
               /\ IsCompute(cells[c].deps[i])
               /\ Len(cells[cells[c].deps[i]].deps) >= 1


\* How often handle t stands in the dependency list of cell c.
Occurrences(c, t) ==
    IF cells[c].kind = "Compute"
    THEN Cardinality({i \in 1 .. Len(cells[c].deps) : cells[c].deps[i] = t})
    ELSE 0

\* How many of the calls ev are calls on cell t.
CallsOn(ev, t) == Cardinality({i \in 1 .. Len(ev) : ev[i] = t})

RECURSIVE Inflow(_, _, _)
\* The get_val calls that the calls ev on the cells below handle k make
\* on cell t: every evaluation of a cell evaluates each entry of its
\* dependency list once.
Inflow(ev, t, k) ==
    IF k = 0 THEN 0
    ELSE Inflow(ev, t, k - 1) + CallsOn(ev, k - 1) * Occurrences(k - 1, t)

C18_CellsPersist ==
    [][\A h \in DOMAIN cells :
           /\ h \in DOMAIN cells'
           /\ cells'[h].kind = cells[h].kind
           /\ cells[h].kind = "Compute" => cells'[h] = cells[h]]_vars

\* Witness of C18: set_value has just written an input cell on which a
\* compute cell of two dependencies and the constant function depends,
\* next to another compute cell.
C18_Witness ==
    /\ op.name = "set_value"
    /\ ret = Bool(TRUE)
    /\ \E c \in Dependents(op.n) :
           /\ Len(cells[c].deps) = 2
           /\ cells[c].func = "zero"
           /\ \E k \in DOMAIN cells : k # c /\ IsCompute(k)


\* C19: a set_value call that returns true leaves the set of handles, the
\* id counter and every cell but the written one as they were; the written
\* cell is an input cell holding the given value.
C19_SetValueFrame ==
    [][(op'.name = "set_value" /\ ret' = Bool(TRUE)) =>
           \A a \in {op'.n} :
               /\ DOMAIN cells' = DOMAIN cells
               /\ id' = id
               /\ \A h \in (DOMAIN cells) \ {a} : cells'[h] = cells[h]
               /\ cells'[a] = InputCell(written'[a])]_vars

\* Witness of C19: set_value has just stored 1 in an input cell while
\* another input cell holds 0.
C19_Witness ==
    /\ op.name = "set_value"
    /\ ret = Bool(TRUE)
    /\ cells[op.n] = InputCell(1)
    /\ \E k \in DOMAIN cells : k # op.n /\ cells[k] = InputCell(0)


RECURSIVE Descends(_, _)
\* The evaluation of cell h comes back without nesting get_val calls more
\* than fuel deep: an input cell returns at once, a compute cell after the
\* evaluation of each of its dependencies, one level further down.
Descends(h, fuel) ==
    /\ fuel > 0
    /\ \/ cells[h].kind = "Input"
       \/ \A i \in 1 .. Len(cells[h].deps) :
              /\ cells[h].deps[i] \in DOMAIN cells
              /\ Descends(cells[h].deps[i], fuel - 1)

\* C20: in every state the evaluation of every cell terminates: its
\* descent through the dependencies nests no deeper than the number of
\* cells, so it meets no cell twice on one path and ends at input cells
\* (or at compute cells without dependencies).
C20_EvaluationTerminates ==
    \A h \in DOMAIN cells : Descends(h, Cardinality(DOMAIN cells))

\* Witness of C20: a cell whose evaluation nests three calls deep, through
\* a compute cell down to a third cell.
C20_Witness ==
    \E h \in DOMAIN cells : Descends(h, 3) /\ ~Descends(h, 2)

====
